---------------------------- MODULE Spec2Model ----------------------------
(***************************************************************************)
(* LockraWalletAI daemonFlows:                                             *)
(*   jobs/trackFreshMints.py  - the fresh-mint poller and its driver loop  *)
(*   assistants/Utils.py      - chunk_list, flatten, mean                  *)
(*                                                                         *)
(* Spec / LiveSpec model the poller run as a program against an external   *)
(* RPC service; UtilSpec applies the pure helpers to bounded inputs.       *)
(***************************************************************************)
EXTENDS Integers, Sequences, FiniteSets, TLC

VARIABLES
    (* ---- the RPC service (environment) ---- *)
    chainSlot,       \* the ledger's current slot, as the RPC service sees it
    (* ---- trackFreshMints.py ---- *)
    pc,              \* position of the single thread of the script
    lookback_slots,  \* parameter of track_fresh_mints
    current_slot,    \* local of track_fresh_mints (line 15)
    start_slot,      \* local of track_fresh_mints (line 16)
    resp,            \* resp["result"] (line 19)
    idx,             \* accounts of resp already visited by the for loop
    fresh,           \* local of track_fresh_mints (line 20)
    mints,           \* variable of the driver loop (line 33)
    stdout,          \* what the current loop pass has printed
    sleptFor,        \* seconds the current loop pass has slept
    error,           \* the uncaught exception that ended the process
    rpcLog,          \* outbound requests of the current call, oldest first
    events,          \* steps of the current loop pass, oldest first
    seen,            \* pubkeys printed by the previous loop pass
    (* ---- Utils.py ---- *)
    u_fn,            \* the helper under call
    u_data,          \* its list argument
    u_arg0,          \* the list argument as passed, before the call
    u_size,          \* chunk_list's size argument
    u_stage,         \* "call", "chunked", "done" or "raised"
    u_chunks,        \* what chunk_list returned
    u_out,           \* what the call returned
    u_exc            \* the exception the call raised, or "none"

pvars == <<chainSlot, pc, lookback_slots, current_slot, start_slot, resp, idx,
           fresh, mints, stdout, sleptFor, error, rpcLog, events, seen>>
uvars == <<u_fn, u_data, u_arg0, u_size, u_stage, u_chunks, u_out, u_exc>>
vars == <<pvars, uvars>>

---------------------------------------------------------------------------
(* Bounds and input domains                                                *)

MaxAccounts == 3      \* longest getProgramAccounts result
MaxLen == 5           \* longest list given to chunk_list
MaxElem == 3          \* list elements are 1..MaxElem
MaxSize == 3          \* largest chunk size
MaxNegSize == 2       \* most negative chunk size is -MaxNegSize
MaxOuter == 2         \* most sublists given to flatten
MaxInner == 2         \* longest sublist given to flatten
MaxMeanLen == 3       \* longest list given to mean
MaxVal == 4           \* values given to mean are -1..MaxVal

\* track_fresh_mints(lookback_slots: int = 5000)
DEFAULT_LOOKBACK == 5000
\* time.sleep(300)
SLEEP_SECONDS == 300
\* PROGRAM_ID
PROGRAM_ID == "TokenkegQfeZyiNwAJbNbGKPFXCWuBvf9Ss623VQ5DA"

\* Slots the ledger passes through while the script runs (it only advances).
ChainSlots == {150, 200}
\* Lookback windows: none, a short one and the driver's default.
Lookbacks == {0, 100, DEFAULT_LOOKBACK}

\* A JSON value found in account data: a number or a string.
JInt(n) == [int |-> n]
JStr(s) == [str |-> s]
IsInt(v) == DOMAIN v = {"int"}

Acct(pk, d1) == [pubkey |-> pk, account |-> [data |-> <<JStr("blob"), d1>>]]

\* Accounts the service may return.  The last one carries the encoding name
\* where the poller reads a slot, as a base64-encoded answer does.
AccountPool ==
    { Acct("MintA", JInt(10)), Acct("MintB", JInt(100)),
      Acct("MintC", JInt(200)), Acct("MintD", JStr("base64")) }

SeqsUpTo(S, n) == UNION { [1..k -> S] : k \in 0..n }

Responses == SeqsUpTo(AccountPool, MaxAccounts)

---------------------------------------------------------------------------
(* trackFreshMints.py                                                      *)

\* data[1] of Python is the second element.
SlotField(acct) == acct.account.data[2]

\* line 23 with the lower bound made strict.
InWindow_exclusive(slot, lo, hi) == lo < slot /\ slot <= hi

\* line 23: start_slot <= slot <= current_slot
InWindow(slot, lo, hi) == lo <= slot /\ slot <= hi

\* lines 24-27
FreshRecord(acct, slot) == [mint |-> acct.pubkey, firstSeenSlot |-> slot]

NoOutput == [printed |-> FALSE, count |-> 0, lines |-> <<>>]

Request(method, arg) == [method |-> method, arg |-> arg, servedAt |-> chainSlot]

\* The driver loop with the call wrapped in try/except: the pass is given up
\* and the loop goes on.
Raise_caught(exc) ==
    /\ pc' = "main"
    /\ error' = exc
    /\ UNCHANGED <<mints, stdout, sleptFor, events, seen>>

\* No try/except anywhere: an exception unwinds track_fresh_mints and the
\* while loop and ends the process.
Raise(exc) ==
    /\ pc' = "crashed"
    /\ error' = exc
    /\ UNCHANGED <<mints, stdout, sleptFor, events, seen>>

PInit ==
    /\ chainSlot \in ChainSlots
    /\ pc = "main"
    /\ lookback_slots \in Lookbacks
    /\ current_slot = 0
    /\ start_slot = 0
    /\ resp = <<>>
    /\ idx = 0
    /\ fresh = <<>>
    /\ mints = <<>>
    /\ stdout = NoOutput
    /\ sleptFor = 0
    /\ error = "none"
    /\ rpcLog = <<>>
    /\ events = <<>>
    /\ seen = {}

\* The ledger moves on, whatever the script is doing.
AdvanceSlot ==
    /\ \E s \in ChainSlots : s > chainSlot /\ chainSlot' = s
    /\ UNCHANGED <<pc, lookback_slots, current_slot, start_slot, resp, idx,
                   fresh, mints, stdout, sleptFor, error, rpcLog, events, seen>>

\* lines 32-33: the loop head calls track_fresh_mints; a new frame, a new
\* loop pass.  line 14 builds the client and sends nothing.
CallTrack ==
    /\ pc = "main"
    /\ pc' = "get_slot"
    /\ current_slot' = 0
    /\ start_slot' = 0
    /\ resp' = <<>>
    /\ idx' = 0
    /\ fresh' = <<>>
    /\ rpcLog' = <<>>
    /\ events' = <<"poll">>
    /\ stdout' = NoOutput
    /\ sleptFor' = 0
    /\ seen' = { stdout.lines[i].mint : i \in 1..Len(stdout.lines) }
    /\ UNCHANGED <<chainSlot, lookback_slots, mints, error>>

\* lines 15-16: the service answers with the ledger's slot.
GetSlotOk ==
    /\ pc = "get_slot"
    /\ rpcLog' = Append(rpcLog, Request("getSlot", ""))
    /\ current_slot' = chainSlot
    /\ start_slot' = chainSlot - lookback_slots
    /\ pc' = "get_accounts"
    /\ UNCHANGED <<chainSlot, lookback_slots, resp, idx, fresh, mints, stdout,
                   sleptFor, error, events, seen>>

\* line 15 raises: the request fails or the answer has no "result".
GetSlotFail ==
    /\ pc = "get_slot"
    /\ rpcLog' = Append(rpcLog, Request("getSlot", ""))
    /\ Raise("get_slot")
    /\ UNCHANGED <<chainSlot, lookback_slots, current_slot, start_slot, resp,
                   idx, fresh>>

\* lines 19-20 with the window taken again from the ledger's slot at the
\* second request.
GetProgramAccountsOk_reslot ==
    /\ pc = "get_accounts"
    /\ rpcLog' = Append(rpcLog, Request("getProgramAccounts", PROGRAM_ID))
    /\ resp' \in Responses
    /\ idx' = 0
    /\ fresh' = <<>>
    /\ current_slot' = chainSlot
    /\ start_slot' = chainSlot - lookback_slots
    /\ pc' = "loop"
    /\ UNCHANGED <<chainSlot, lookback_slots, mints, stdout, sleptFor, error,
                   events, seen>>

\* lines 19-20 with the result list kept from the previous poll.
GetProgramAccountsOk_accumulate ==
    /\ pc = "get_accounts"
    /\ rpcLog' = Append(rpcLog, Request("getProgramAccounts", PROGRAM_ID))
    /\ resp' \in Responses
    /\ idx' = 0
    /\ fresh' = mints
    /\ pc' = "loop"
    /\ UNCHANGED <<chainSlot, lookback_slots, current_slot, start_slot, mints,
                   stdout, sleptFor, error, events, seen>>

\* lines 19-20: the service answers with the program's accounts, and the
\* result list starts empty.
GetProgramAccountsOk ==
    /\ pc = "get_accounts"
    /\ rpcLog' = Append(rpcLog, Request("getProgramAccounts", PROGRAM_ID))
    /\ resp' \in Responses
    /\ idx' = 0
    /\ fresh' = <<>>
    /\ pc' = "loop"
    /\ UNCHANGED <<chainSlot, lookback_slots, current_slot, start_slot, mints,
                   stdout, sleptFor, error, events, seen>>

\* line 19 raises.
GetProgramAccountsFail ==
    /\ pc = "get_accounts"
    /\ rpcLog' = Append(rpcLog, Request("getProgramAccounts", PROGRAM_ID))
    /\ Raise("get_program_accounts")
    /\ UNCHANGED <<chainSlot, lookback_slots, current_slot, start_slot, resp,
                   idx, fresh>>

\* lines 21-27, one account whose data[1] is a number.
LoopStep ==
    /\ pc = "loop"
    /\ idx < Len(resp)
    /\ IsInt(SlotField(resp[idx + 1]))
    /\ LET acct == resp[idx + 1]
           slot == SlotField(acct).int
       IN  fresh' = IF InWindow(slot, start_slot, current_slot)
                    THEN Append(fresh, FreshRecord(acct, slot))
                    ELSE fresh
    /\ idx' = idx + 1
    /\ UNCHANGED <<chainSlot, pc, lookback_slots, current_slot, start_slot,
                   resp, mints, stdout, sleptFor, error, rpcLog, events, seen>>

\* line 23 raises TypeError: an int is compared with a str.
LoopDecodeFail ==
    /\ pc = "loop"
    /\ idx < Len(resp)
    /\ ~IsInt(SlotField(resp[idx + 1]))
    /\ Raise("decode")
    /\ UNCHANGED <<chainSlot, lookback_slots, current_slot, start_slot, resp,
                   idx, fresh, rpcLog>>

\* line 29 returns and line 33 binds the result.
Return ==
    /\ pc = "loop"
    /\ idx = Len(resp)
    /\ mints' = fresh
    /\ pc' = "print"
    /\ UNCHANGED <<chainSlot, lookback_slots, current_slot, start_slot, resp,
                   idx, fresh, stdout, sleptFor, error, rpcLog, events, seen>>

\* lines 34-36
PrintMints ==
    /\ pc = "print"
    /\ stdout' = [printed |-> TRUE, count |-> Len(mints), lines |-> mints]
    /\ events' = Append(events, "print")
    /\ pc' = "sleep"
    /\ UNCHANGED <<chainSlot, lookback_slots, current_slot, start_slot, resp,
                   idx, fresh, mints, sleptFor, error, rpcLog, seen>>

\* line 37 followed by a break out of the loop.
Sleep_exit ==
    /\ pc = "sleep"
    /\ sleptFor' = SLEEP_SECONDS
    /\ events' = Append(events, "sleep")
    /\ pc' = "exited"
    /\ UNCHANGED <<chainSlot, lookback_slots, current_slot, start_slot, resp,
                   idx, fresh, mints, stdout, error, rpcLog, seen>>

\* line 37, then back to line 32
Sleep ==
    /\ pc = "sleep"
    /\ sleptFor' = SLEEP_SECONDS
    /\ events' = Append(events, "sleep")
    /\ pc' = "main"
    /\ UNCHANGED <<chainSlot, lookback_slots, current_slot, start_slot, resp,
                   idx, fresh, mints, stdout, error, rpcLog, seen>>

Program ==
    \/ CallTrack
    \/ GetSlotOk
    \/ GetSlotFail
    \/ GetProgramAccountsOk
    \/ GetProgramAccountsFail
    \/ LoopStep
    \/ LoopDecodeFail
    \/ Return
    \/ PrintMints
    \/ Sleep

UIdle ==
    /\ u_fn = "none"
    /\ u_data = <<>>
    /\ u_arg0 = <<>>
    /\ u_size = 1
    /\ u_stage = "done"
    /\ u_chunks = <<>>
    /\ u_out = <<>>
    /\ u_exc = "none"

Init == PInit /\ UIdle

Next ==
    \/ AdvanceSlot /\ UNCHANGED uvars
    \/ CallTrack /\ UNCHANGED uvars
    \/ GetSlotOk /\ UNCHANGED uvars
    \/ GetSlotFail /\ UNCHANGED uvars
    \/ GetProgramAccountsOk /\ UNCHANGED uvars
    \/ GetProgramAccountsFail /\ UNCHANGED uvars
    \/ LoopStep /\ UNCHANGED uvars
    \/ LoopDecodeFail /\ UNCHANGED uvars
    \/ Return /\ UNCHANGED uvars
    \/ PrintMints /\ UNCHANGED uvars
    \/ Sleep /\ UNCHANGED uvars

Spec == Init /\ [][Next]_vars

\* time.sleep returns and a blocking request either answers or raises: the
\* single thread always takes its next step.
LiveSpec == Init /\ [][Next]_vars /\ WF_vars(Program /\ UNCHANGED uvars)

---------------------------------------------------------------------------
(* Properties of the poller                                                *)

SlotOf(i) == SlotField(resp[i]).int

\* Positions of resp whose slot lies in [current_slot - lookback, current_slot].
Kept ==
    { i \in 1..Len(resp) :
        /\ current_slot - lookback_slots <= SlotOf(i)
        /\ SlotOf(i) <= current_slot }

\* The k-th smallest position of Kept.
NthKept(k) == CHOOSE i \in Kept : Cardinality({ j \in Kept : j < i }) = k - 1

ExampleResp ==
    << Acct("MintA", JInt(10)), Acct("MintB", JInt(100)), Acct("MintC", JInt(200)) >>

\* C1: when track_fresh_mints returns, its result holds exactly one record
\* {mint: pubkey, firstSeenSlot: s} per account of the response whose slot s
\* satisfies c - L <= s <= c, in response order, nothing dropped, duplicated
\* or added; slots [10, 100, 200] with c = 150 and L = 100 give the record of
\* slot 100 alone.
C1_FilterExact ==
    pc = "print" =>
        /\ Len(mints) = Cardinality(Kept)
        /\ \A k \in 1..Len(mints) :
              mints[k] = [mint |-> resp[NthKept(k)].pubkey,
                          firstSeenSlot |-> SlotOf(NthKept(k))]
        /\ (resp = ExampleResp /\ current_slot = 150 /\ lookback_slots = 100)
              => mints = <<[mint |-> "MintB", firstSeenSlot |-> 100]>>

C1_Witness ==
    /\ pc = "print"
    /\ resp = ExampleResp
    /\ current_slot = 150
    /\ lookback_slots = 100
    /\ mints = <<[mint |-> "MintB", firstSeenSlot |-> 100]>>

Failing == GetSlotFail \/ GetProgramAccountsFail \/ LoopDecodeFail

\* C2: a failing RPC call or a failing decode ends the process: the step
\* leads to the crashed state, in which nothing was printed and no sleep was
\* taken in that loop pass, and from which no request, print, sleep or poll
\* follows.
C2_FailureIsFatal ==
    /\ [](pc = "crashed" =>
            /\ error # "none"
            /\ ~stdout.printed
            /\ sleptFor = 0
            /\ events = <<"poll">>)
    /\ [][Failing => pc' = "crashed"]_vars
    /\ [][pc = "crashed" =>
            /\ pc' = "crashed"
            /\ UNCHANGED <<rpcLog, events, stdout, sleptFor, mints, error>>]_vars

C2_Witness ==
    /\ pc = "crashed"
    /\ error = "decode"
    /\ fresh # <<>>
    /\ ~stdout.printed
    /\ Len(rpcLog) = 2

PassOrder ==
    /\ pc \in {"get_slot", "get_accounts", "loop", "print"} => events = <<"poll">>
    /\ pc = "sleep" =>
          /\ events = <<"poll", "print">>
          /\ stdout = [printed |-> TRUE, count |-> Len(mints), lines |-> mints]
    /\ pc = "main" =>
          \/ events = <<>>
          \/ events = <<"poll", "print", "sleep">> /\ sleptFor = 300
    /\ pc \in {"main", "get_slot", "get_accounts", "loop", "print", "sleep", "crashed"}

\* C3 as stated: as long as no RPC call fails the loop never exits: every
\* loop pass is followed by another, and a pass is poll, then print of the
\* count and of each mint, then a sleep of 300 seconds, one poll per sleep.
C3_AsStated ==
    /\ []PassOrder
    /\ ([](error \notin {"get_slot", "get_program_accounts"})) =>
          /\ []<>(pc = "get_slot")
          /\ []<>(pc = "print")
          /\ []<>(pc = "sleep")

\* C3 amended: as long as no RPC call and no decoding of a response fails
\* the loop never exits: every loop pass is followed by another, and a pass
\* is poll, then print of the count and of each mint, then a sleep of 300
\* seconds, one poll per sleep.
C3_LoopsForever ==
    /\ []PassOrder
    /\ ([](error = "none")) =>
          /\ []<>(pc = "get_slot")
          /\ []<>(pc = "print")
          /\ []<>(pc = "sleep")

\* A second pass has run to the end of its sleep.
C3_Witness ==
    /\ pc = "main"
    /\ events = <<"poll", "print", "sleep">>
    /\ sleptFor = 300
    /\ seen # {}
    /\ error = "none"

\* C4: a call sends getSlot and then getProgramAccounts for the fixed
\* program id, each once, and the window is computed from the slot the first
\* request returned.
C4_TwoRequests ==
    /\ Len(rpcLog) <= 2
    /\ pc = "get_slot" => rpcLog = <<>>
    /\ pc = "get_accounts" => Len(rpcLog) = 1
    /\ pc \in {"get_accounts", "loop", "print"} =>
          /\ rpcLog[1].method = "getSlot"
          /\ current_slot = rpcLog[1].servedAt
          /\ start_slot = rpcLog[1].servedAt - lookback_slots
    /\ pc \in {"loop", "print"} =>
          /\ Len(rpcLog) = 2
          /\ rpcLog[2].method = "getProgramAccounts"
          /\ rpcLog[2].arg = "TokenkegQfeZyiNwAJbNbGKPFXCWuBvf9Ss623VQ5DA"
    /\ pc = "print" =>
          \A k \in 1..Len(mints) :
              /\ rpcLog[1].servedAt - lookback_slots <= mints[k].firstSeenSlot
              /\ mints[k].firstSeenSlot <= rpcLog[1].servedAt

\* The ledger advanced between the two requests, and an account whose slot
\* lies past the first answer was left out.
C4_Witness ==
    /\ pc = "print"
    /\ rpcLog[1].servedAt < rpcLog[2].servedAt
    /\ \E i \in 1..Len(resp) :
          /\ SlotOf(i) > rpcLog[1].servedAt
          /\ SlotOf(i) <= rpcLog[2].servedAt
    /\ mints # <<>>

\* What a first poll makes of a response: the records of the accounts in
\* the window [c - L, c], in order.
RECURSIVE FirstPoll(_, _, _)
FirstPoll(accts, c, L) ==
    IF accts = <<>> THEN <<>>
    ELSE LET s == SlotField(Head(accts)).int
             rest == FirstPoll(Tail(accts), c, L)
         IN  IF c - L <= s /\ s <= c
             THEN <<[mint |-> Head(accts).pubkey, firstSeenSlot |-> s]>> \o rest
             ELSE rest

\* C5: the result list is empty when the filter loop starts, and what a loop
\* pass prints is what a first poll would print for the same two responses,
\* whatever the earlier passes found.
C5_NothingSurvives ==
    /\ (pc = "loop" /\ idx = 0) => fresh = <<>>
    /\ pc = "sleep" =>
          /\ stdout.lines = FirstPoll(resp, current_slot, lookback_slots)
          /\ stdout.count = Len(stdout.lines)

\* A mint printed by the previous pass is printed again, and another one the
\* previous pass printed is gone.
C5_Witness ==
    /\ pc = "sleep"
    /\ \E k \in 1..Len(stdout.lines) : stdout.lines[k].mint \in seen
    /\ \E m \in seen : \A k \in 1..Len(stdout.lines) : stdout.lines[k].mint # m

---------------------------------------------------------------------------
(* Utils.py                                                                *)

JList(xs) == [list |-> xs]

\* Python's range(start, stop, step) for step # 0, as a sequence.
PyRangeLen(start, stop, step) ==
    IF step > 0 /\ start < stop THEN 1 + ((stop - start - 1) \div step)
    ELSE IF step < 0 /\ start > stop THEN 1 + ((start - stop - 1) \div (-step))
    ELSE 0

PyRange(start, stop, step) ==
    [k \in 1..PyRangeLen(start, stop, step) |-> start + (k - 1) * step]

\* data[lo:hi] read with an inclusive upper end.
PySlice_inclusive(data, lo, hi) ==
    SubSeq(data, (IF lo > Len(data) THEN Len(data) ELSE lo) + 1,
                 IF hi + 1 > Len(data) THEN Len(data) ELSE hi + 1)

\* Python's data[lo:hi]: negative indices count from the end, both ends are
\* clamped to the list, an empty or reversed span is the empty list.
PyClamp(i, n) ==
    LET j == IF i < 0 THEN i + n ELSE i
    IN  IF j < 0 THEN 0 ELSE IF j > n THEN n ELSE j

PySlice(data, lo, hi) ==
    SubSeq(data, PyClamp(lo, Len(data)) + 1, PyClamp(hi, Len(data)))

Returned(v) == [exc |-> "none", value |-> v]
Raised(e) == [exc |-> e, value |-> <<>>]

\* lines 13-14 keeping full chunks only: range(0, len(data) - size + 1, size).
chunk_list_full_only(data, size) ==
    IF size = 0 THEN Raised("ValueError")
    ELSE LET starts == PyRange(0, Len(data) - size + 1, size)
         IN  Returned([k \in 1..Len(starts) |->
                          PySlice(data, starts[k], starts[k] + size)])

\* lines 13-14 behind a guard that refuses every size below 1.
chunk_list_guarded(data, size) ==
    IF size <= 0 THEN Raised("ValueError")
    ELSE LET starts == PyRange(0, Len(data), size)
         IN  Returned([k \in 1..Len(starts) |->
                          PySlice(data, starts[k], starts[k] + size)])

\* lines 13-14; range() refuses a zero step with ValueError.
chunk_list(data, size) ==
    IF size = 0 THEN Raised("ValueError")
    ELSE LET starts == PyRange(0, Len(data), size)
         IN  Returned([k \in 1..Len(starts) |->
                          PySlice(data, starts[k], starts[k] + size)])

\* lines 16-17: for sublist in list_of_lists, for item in sublist.
RECURSIVE FlattenFrom(_, _)
FlattenFrom(list_of_lists, i) ==
    IF i > Len(list_of_lists) THEN <<>>
    ELSE list_of_lists[i] \o FlattenFrom(list_of_lists, i + 1)

\* lines 16-17 flattening every level: an item that is a list is spliced in.
RECURSIVE DeepItems(_)
DeepItems(sublist) ==
    IF sublist = <<>> THEN <<>>
    ELSE (IF DOMAIN Head(sublist) = {"list"}
          THEN DeepItems(Head(sublist).list)
          ELSE <<Head(sublist)>>) \o DeepItems(Tail(sublist))

RECURSIVE DeepFrom(_, _)
DeepFrom(list_of_lists, i) ==
    IF i > Len(list_of_lists) THEN <<>>
    ELSE DeepItems(list_of_lists[i]) \o DeepFrom(list_of_lists, i + 1)

flatten_deep(list_of_lists) == DeepFrom(list_of_lists, 1)

flatten(list_of_lists) == FlattenFrom(list_of_lists, 1)

\* sum(values), starting from 0
RECURSIVE PySum(_)
PySum(values) ==
    IF values = <<>> THEN 0 ELSE values[1] + PySum(Tail(values))

RECURSIVE Gcd(_, _)
Gcd(a, b) == IF b = 0 THEN a ELSE Gcd(b, a % b)

Abs(a) == IF a < 0 THEN -a ELSE a

\* A float whose value is the fraction num/den in lowest terms, den > 0.
Float(num, den) ==
    LET g == Gcd(Abs(num), Abs(den))
        sgn == IF den < 0 THEN -1 ELSE 1
    IN  [num |-> sgn * (num \div g), den |-> sgn * (den \div g)]

\* Python's a / b on ints.
TrueDiv(a, b) ==
    IF b = 0 THEN Raised("ZeroDivisionError") ELSE Returned(Float(a, b))

\* lines 19-20 without the guard.
mean_unguarded(values) == TrueDiv(PySum(values), Len(values))

\* lines 19-20; an empty list is falsy.
mean(values) ==
    IF values # <<>> THEN TrueDiv(PySum(values), Len(values))
    ELSE Returned(Float(0, 1))

ChunkInputs == SeqsUpTo(1..MaxElem, MaxLen) \cup {<<1, 2, 3, 4, 5>>}
Sizes == (-MaxNegSize)..MaxSize

\* Items of the sublists given to flatten: numbers and a list.
FlatItems == {JInt(1), JInt(2), JList(<<JInt(3)>>)}
FlattenInputs ==
    SeqsUpTo(SeqsUpTo(FlatItems, MaxInner), MaxOuter)
        \cup {<< <<JInt(1), JInt(2)>>, <<JInt(3)>> >>}

MeanInputs == SeqsUpTo((-1)..MaxVal, MaxMeanLen)

PIdle ==
    /\ chainSlot = 0
    /\ pc = "off"
    /\ lookback_slots = DEFAULT_LOOKBACK
    /\ current_slot = 0
    /\ start_slot = 0
    /\ resp = <<>>
    /\ idx = 0
    /\ fresh = <<>>
    /\ mints = <<>>
    /\ stdout = NoOutput
    /\ sleptFor = 0
    /\ error = "none"
    /\ rpcLog = <<>>
    /\ events = <<>>
    /\ seen = {}

UInit ==
    /\ \/ u_fn = "chunk_list" /\ u_data \in ChunkInputs /\ u_size \in Sizes
       \/ u_fn = "flatten" /\ u_data \in FlattenInputs /\ u_size = 1
       \/ u_fn = "mean" /\ u_data \in MeanInputs /\ u_size = 1
    /\ u_arg0 = u_data
    /\ u_stage = "call"
    /\ u_chunks = <<>>
    /\ u_out = <<>>
    /\ u_exc = "none"

\* chunk_list(u_data, u_size)
CallChunkList ==
    /\ u_fn = "chunk_list"
    /\ u_stage = "call"
    /\ LET r == chunk_list(u_data, u_size)
       IN  /\ u_exc' = r.exc
           /\ u_chunks' = r.value
           /\ u_stage' = IF r.exc = "none" THEN "chunked" ELSE "raised"
    /\ UNCHANGED <<u_fn, u_data, u_arg0, u_size, u_out>>

\* flatten(chunk_list(u_data, u_size)): the outer call, once the inner one
\* has returned.
CallFlattenOnChunks ==
    /\ u_fn = "chunk_list"
    /\ u_stage = "chunked"
    /\ u_out' = flatten(u_chunks)
    /\ u_stage' = "done"
    /\ UNCHANGED <<u_fn, u_data, u_arg0, u_size, u_chunks, u_exc>>

\* flatten(u_data)
CallFlatten ==
    /\ u_fn = "flatten"
    /\ u_stage = "call"
    /\ u_out' = flatten(u_data)
    /\ u_stage' = "done"
    /\ UNCHANGED <<u_fn, u_data, u_arg0, u_size, u_chunks, u_exc>>

\* mean(u_data)
CallMean ==
    /\ u_fn = "mean"
    /\ u_stage = "call"
    /\ LET r == mean(u_data)
       IN  /\ u_exc' = r.exc
           /\ u_out' = r.value
           /\ u_stage' = IF r.exc = "none" THEN "done" ELSE "raised"
    /\ UNCHANGED <<u_fn, u_data, u_arg0, u_size, u_chunks>>

UtilInit == PIdle /\ UInit

UtilNext ==
    \/ CallChunkList /\ UNCHANGED pvars
    \/ CallFlattenOnChunks /\ UNCHANGED pvars
    \/ CallFlatten /\ UNCHANGED pvars
    \/ CallMean /\ UNCHANGED pvars

UtilSpec == UtilInit /\ [][UtilNext]_vars

---------------------------------------------------------------------------
(* Properties of the helpers                                               *)

CeilDiv(n, d) == (n + d - 1) \div d

\* C6: for size >= 1 chunk_list returns ceil(len/size) consecutive slices
\* of the list in order, all of size elements except the last, which has 1
\* to size; the empty list gives no chunk; [1,2,3,4,5] by 2 gives
\* [[1,2],[3,4],[5]]; the argument is left as it was.
C6_ChunkShape ==
    (u_fn = "chunk_list" /\ u_size >= 1 /\ u_stage # "call") =>
        LET n == Len(u_arg0)
            k == Len(u_chunks)
        IN  /\ u_stage \in {"chunked", "done"}
            /\ u_exc = "none"
            /\ k = CeilDiv(n, u_size)
            /\ n = 0 => u_chunks = <<>>
            /\ \A j \in 1..(k - 1) : Len(u_chunks[j]) = u_size
            /\ k > 0 => Len(u_chunks[k]) \in 1..u_size
            /\ \A j \in 1..k : \A t \in 1..Len(u_chunks[j]) :
                  u_chunks[j][t] = u_arg0[(j - 1) * u_size + t]
            /\ (u_arg0 = <<1, 2, 3, 4, 5>> /\ u_size = 2)
                  => u_chunks = << <<1, 2>>, <<3, 4>>, <<5>> >>
            /\ u_data = u_arg0

C6_Witness ==
    /\ u_fn = "chunk_list"
    /\ u_stage = "chunked"
    /\ u_arg0 = <<1, 2, 3, 4, 5>>
    /\ u_size = 2
    /\ u_chunks = << <<1, 2>>, <<3, 4>>, <<5>> >>

\* Items of the sublists before sublist i.
RECURSIVE Offset(_, _)
Offset(xs, i) == IF i <= 1 THEN 0 ELSE Offset(xs, i - 1) + Len(xs[i - 1])

\* C7: flatten returns the sublists' items in order with one level of
\* nesting removed: as many items as the sublists hold together, nothing for
\* an empty sublist, an item that is a list kept as one item;
\* [[1,2],[3]] gives [1,2,3].
C7_FlattenOneLevel ==
    (u_fn = "flatten" /\ u_stage # "call") =>
        /\ u_stage = "done"
        /\ Len(u_out) = Offset(u_arg0, Len(u_arg0) + 1)
        /\ \A i \in 1..Len(u_arg0) : \A j \in 1..Len(u_arg0[i]) :
              u_out[Offset(u_arg0, i) + j] = u_arg0[i][j]
        /\ u_arg0 = << <<JInt(1), JInt(2)>>, <<JInt(3)>> >>
              => u_out = <<JInt(1), JInt(2), JInt(3)>>
        /\ u_data = u_arg0

\* An empty sublist, then a sublist holding a number and a list.
C7_Witness ==
    /\ u_fn = "flatten"
    /\ u_stage = "done"
    /\ u_arg0 = << <<>>, <<JInt(1), JList(<<JInt(3)>>)>> >>
    /\ u_out = <<JInt(1), JList(<<JInt(3)>>)>>

\* C8: mean returns 0.0 for the empty list and raises nothing, and
\* sum/len for a list that is not empty; mean([2,4]) is 3.0.
C8_Mean ==
    (u_fn = "mean" /\ u_stage # "call") =>
        /\ u_stage = "done"
        /\ u_exc = "none"
        /\ u_arg0 = <<>> => u_out = [num |-> 0, den |-> 1]
        /\ u_arg0 # <<>> =>
              /\ u_out.den > 0
              /\ u_out.num * Len(u_arg0) = PySum(u_arg0) * u_out.den
              /\ Gcd(Abs(u_out.num), u_out.den) = 1
        /\ u_arg0 = <<2, 4>> => u_out = [num |-> 3, den |-> 1]

C8_Witness ==
    /\ u_fn = "mean"
    /\ u_stage = "done"
    /\ u_arg0 = <<>>
    /\ u_exc = "none"
    /\ u_out = [num |-> 0, den |-> 1]

\* C9: for size >= 1, flatten(chunk_list(data, size)) is data.
C9_RoundTrip ==
    (u_fn = "chunk_list" /\ u_size >= 1 /\ u_stage = "done") => u_out = u_arg0

C9_Witness ==
    /\ u_fn = "chunk_list"
    /\ u_stage = "done"
    /\ u_size = 2
    /\ u_arg0 = <<1, 2, 3, 4, 5>>
    /\ Len(u_chunks) = 3
    /\ u_out = <<1, 2, 3, 4, 5>>

\* C10: chunk_list raises for size = 0 and returns no value; for size < 0
\* it returns the empty list whatever the input, so flatten of it is empty
\* and every element of the input is lost.
C10_OutsideDomain ==
    /\ (u_fn = "chunk_list" /\ u_size = 0 /\ u_stage # "call") =>
          /\ u_stage = "raised"
          /\ u_exc = "ValueError"
    /\ (u_fn = "chunk_list" /\ u_size < 0 /\ u_stage # "call") =>
          /\ u_stage \in {"chunked", "done"}
          /\ u_exc = "none"
          /\ u_chunks = <<>>
    /\ (u_fn = "chunk_list" /\ u_size < 0 /\ u_stage = "done") => u_out = <<>>

C10_Witness ==
    /\ u_fn = "chunk_list"
    /\ u_size < 0
    /\ u_stage = "done"
    /\ Len(u_arg0) = 3
    /\ u_out = <<>>

====
